---- MODULE Spec2Model ----
(***************************************************************************)
(* A model of the video-reel-metadata-downloader scripts:                  *)
(*   src/media_meta_data.py  the normalizers, the metadata dispatcher and  *)
(*                           the batch loop that rewrites the table file   *)
(*   src/main.py             the classifier, sanitize_filename and the     *)
(*                           video download flows                          *)
(*   src/temp.py             the second copy of the Instagram normalizer   *)
(*                                                                         *)
(* Text is a sequence of atoms.  An atom is a single character where the   *)
(* code looks at characters (replace, strip, sanitize) and an indivisible  *)
(* fragment of text ("youtube.com", "https:") in URLs, where the code only *)
(* looks at the boundaries between the fragments.                          *)
(***************************************************************************)
EXTENDS Integers, Sequences, FiniteSets, TLC

VARIABLES
    pc,        \* position of the running script / of the function harness
    arg,       \* the input of the pure function under evaluation
    ret,       \* its output
    script,    \* the script that runs: "media_meta_data" or "main"
    env,       \* the names of the environment variables that are set
    cur_url,   \* the URL being processed
    results,   \* what the dispatcher returned for it
    trace,     \* what processing this URL did so far, in order
    files,     \* contents of INPUT_CSV and TEMP_CSV
    df,        \* the in-memory table
    idx,       \* number of rows the loop has finished
    success_count,
    skipped_error_count,
    fs,        \* the files and directories the download flows created
    dl,        \* the locals of the download function that runs
    runs,      \* how many times the download command was started
    remote     \* the video behind the URL: its owner's name (or title) and its id

harnessVars == <<arg, ret>>
batchVars == <<script, env, cur_url, results, trace, files, df, idx,
               success_count, skipped_error_count>>
mainVars == <<fs, dl, runs, remote>>
vars == <<pc, arg, ret, script, env, cur_url, results, trace, files, df, idx,
          success_count, skipped_error_count, fs, dl, runs, remote>>

\* Python's None where a text is expected: a text that no atom sequence equals.
None == <<"<None>">>

\* s[a..b], empty when a > b
Slice(s, a, b) == IF a > b THEN <<>> ELSE SubSeq(s, a, b)

StartsWith(s, p) == Len(s) >= Len(p) /\ SubSeq(s, 1, Len(p)) = p
EndsWith(s, p) == Len(s) >= Len(p) /\ SubSeq(s, Len(s) - Len(p) + 1, Len(s)) = p

\* the first index i with s[i] \in D, or Len(s) + 1
FirstIn(s, D) ==
    IF \E i \in 1..Len(s) : s[i] \in D
    THEN CHOOSE i \in 1..Len(s) : s[i] \in D /\ \A j \in 1..(i - 1) : s[j] \notin D
    ELSE Len(s) + 1

\* the last index i with s[i] \in D, or 0
LastIn(s, D) ==
    IF \E i \in 1..Len(s) : s[i] \in D
    THEN CHOOSE i \in 1..Len(s) : s[i] \in D /\ \A j \in (i + 1)..Len(s) : s[j] \notin D
    ELSE 0

Whitespace == {" "}

\* str.strip(): drop leading and trailing whitespace
Strip(s) ==
    LET nonws == {i \in 1..Len(s) : s[i] \notin Whitespace}
    IN  IF nonws = {} THEN <<>>
        ELSE LET lo == CHOOSE i \in nonws : \A j \in nonws : i <= j
                 hi == CHOOSE i \in nonws : \A j \in nonws : i >= j
             IN  SubSeq(s, lo, hi)

\* str.lower() on URL atoms: the atoms written with capitals, lowered
LowerAtom(a) ==
    CASE a = "YouTube.COM" -> "youtube.com"
      [] a = "TikTok.Com" -> "tiktok.com"
      [] a = "WWW." -> "www."
      [] OTHER -> a

Lower(s) == [i \in 1..Len(s) |-> LowerAtom(s[i])]

(***************************************************************************)
(* URL classifier                                                          *)
(***************************************************************************)

\* urllib.parse.urlparse(url).netloc: after an optional scheme, the text
\* between a leading "//" and the first of "/", "?", "#".
UrlNetloc(url) ==
    LET rest == IF url # <<>> /\ url[1] \in {"https:", "http:"} THEN Tail(url) ELSE url
    IN  IF rest # <<>> /\ rest[1] = "//"
        THEN LET after == Tail(rest)
             IN  Slice(after, 1, FirstIn(after, {"/", "?", "#"}) - 1)
        ELSE <<>>

\* re.search(r"(a|b)$", domain): domain ends with one of the suffixes
SearchSuffix(domain, suffixes) == \E s \in suffixes : EndsWith(domain, <<s>>)

\* main.py detect_platform
detect_platform(url) ==
    LET u == Strip(url)
        domain == Lower(UrlNetloc(u))
    IN  IF u = <<>> THEN "unknown"
        ELSE IF SearchSuffix(domain, {"youtube.com", "youtu.be"}) THEN "youtube"
        ELSE IF SearchSuffix(domain, {"tiktok.com"}) THEN "tiktok"
        ELSE IF SearchSuffix(domain, {"instagram.com"}) THEN "instagram"
        ELSE "unknown"

\* media_meta_data.py detect_platform (the second copy)
meta_detect_platform(url) ==
    LET u == Strip(url)
        domain == Lower(UrlNetloc(u))
    IN  IF u = <<>> THEN "unknown"
        ELSE IF SearchSuffix(domain, {"youtube.com", "youtu.be"}) THEN "youtube"
        ELSE IF SearchSuffix(domain, {"tiktok.com"}) THEN "tiktok"
        ELSE IF SearchSuffix(domain, {"instagram.com"}) THEN "instagram"
        ELSE "unknown"

(***************************************************************************)
(* Outcomes of a call: a record returned, None returned, or an exception.  *)
(***************************************************************************)
Record(v) == [kind |-> "record", value |-> v]
ReturnNone == [kind |-> "none"]
Raise(e) == [kind |-> "raise", exc |-> e]
Pending == [kind |-> "pending"]

\* The classes `except Exception` catches: everything the libraries raise.
\* KeyboardInterrupt and SystemExit derive from BaseException only.
ExceptionClasses ==
    {"MissingSchema", "ConnectionError", "Timeout", "HTTPError", "HttpError",
     "ParserError", "TypeError", "KeyError", "OSError", "RuntimeError",
     "EnvironmentError", "DownloadError", "InstaloaderException"}

\* requests.exceptions.RequestException and its subclasses
RequestExceptions == {"MissingSchema", "ConnectionError", "Timeout", "HTTPError"}

\* Python truthiness of a text-or-None, and `x or d`
Truthy(x) == x # None /\ x # <<>>
Or(x, d) == IF Truthy(x) THEN x ELSE d

\* str.replace(old, new): non-overlapping occurrences, left to right
RECURSIVE Replace(_, _, _)
Replace(s, old, new) ==
    IF s = <<>> THEN <<>>
    ELSE IF StartsWith(s, old) THEN new \o Replace(Slice(s, Len(old) + 1, Len(s)), old, new)
    ELSE <<s[1]>> \o Replace(Tail(s), old, new)

Nan == <<"n", "a", "n">>

(***************************************************************************)
(* Instagram normalizer (media_meta_data.py and temp.py)                   *)
(***************************************************************************)

\* requests.get(url, ...) followed by r.raise_for_status(): the exception
\* raised, or "ok".  A url that is no http(s) URL raises before any I/O.
IsHttpUrl(url) == url # None /\ Len(url) >= 2 /\ url[1] \in {"https:", "http:"} /\ url[2] = "//"

HttpGetResult(url, http) ==
    IF ~IsHttpUrl(url) THEN "MissingSchema"
    ELSE CASE http = "connection_error" -> "ConnectionError"
           [] http = "timeout" -> "Timeout"
           [] http = "status_404" -> "HTTPError"
           [] http = "status_500" -> "HTTPError"
           [] OTHER -> "ok"

\* og(prop): tag["content"].strip() if tag and tag.get("content") else None
og(tag) == IF tag.present /\ Truthy(tag.content) THEN Strip(tag.content) ELSE None

\* the body of the try block of media_meta_data.fetch_instagram_meta
InstagramTryBody(url, http, page) ==
    LET got == HttpGetResult(url, http)
    IN  IF got # "ok" THEN Raise(got)
        ELSE IF page.parse = "error" THEN Raise("ParserError")
        ELSE LET desc == og(page.description)
                 image == og(page.image)
             IN  Record([url |-> Or(url, <<>>),
                         description |-> Replace(Or(desc, <<>>), Nan, <<>>),
                         thumbnail |-> Replace(Or(image, <<>>), Nan, <<>>)])

fetch_instagram_meta_narrow_except(url, http, page) ==
    LET body == InstagramTryBody(url, http, page)
    IN  IF body.kind = "raise" /\ body.exc \in {"ConnectionError", "Timeout", "MissingSchema"}
        THEN Record([url |-> url, description |-> <<>>, thumbnail |-> <<>>])
        ELSE body

\* media_meta_data.fetch_instagram_meta: try ... except Exception
fetch_instagram_meta(url, http, page) ==
    LET body == InstagramTryBody(url, http, page)
    IN  IF body.kind = "raise" /\ body.exc \in ExceptionClasses
        THEN Record([url |-> url, description |-> <<>>, thumbnail |-> <<>>])
        ELSE body

\* the body of the try block of temp.fetch_instagram_meta
TempInstagramTryBody(url, http, page) ==
    LET got == HttpGetResult(url, http)
    IN  IF got # "ok" THEN Raise(got)
        ELSE IF page.parse = "error" THEN Raise("ParserError")
        ELSE LET desc == og(page.description)
                 image == og(page.image)
             IN  Record([url |-> url,
                         description |-> Or(desc, <<>>),
                         thumbnail |-> Or(image, <<>>)])

\* temp.fetch_instagram_meta: try ... except Exception
temp_fetch_instagram_meta(url, http, page) ==
    LET body == TempInstagramTryBody(url, http, page)
    IN  IF body.kind = "raise" /\ body.exc \in ExceptionClasses
        THEN Record([url |-> url, description |-> <<>>, thumbnail |-> <<>>])
        ELSE body

(***************************************************************************)
(* YouTube normalizer (media_meta_data.py)                                 *)
(***************************************************************************)

\* \d+ : the decimal numerals of the durations considered
IsNum(a) == \E n \in 0..99 : ToString(n) = a
NumVal(a) == CHOOSE n \in 0..99 : ToString(n) = a

\* one optional group (?:(\d+)U)? at the head of d: <<value or -1, rest>>
DurGroup(d, unit) ==
    IF Len(d) >= 2 /\ IsNum(d[1]) /\ d[2] = unit
    THEN <<NumVal(d[1]), Slice(d, 3, Len(d))>>
    ELSE <<-1, d>>

\* f"{n:02d}"
Pad2(n) == IF n < 10 THEN "0" \o ToString(n) ELSE ToString(n)

\* parse_youtube_duration_short: fullmatch of PT(\d+H)?(\d+M)?(\d+S)?, then
\* H:MM:SS when hours is non-zero, else M:SS.  re's fullmatch raises
\* TypeError when given None.
parse_youtube_duration_short(duration) ==
    IF duration = None THEN Raise("TypeError")
    ELSE IF ~StartsWith(duration, <<"PT">>) THEN ReturnNone
    ELSE LET h == DurGroup(Tail(duration), "H")
             m == DurGroup(h[2], "M")
             sec == DurGroup(m[2], "S")
             hours == IF h[1] = -1 THEN 0 ELSE h[1]
             minutes == IF m[1] = -1 THEN 0 ELSE m[1]
             seconds == IF sec[1] = -1 THEN 0 ELSE sec[1]
         IN  IF sec[2] # <<>> THEN ReturnNone
             ELSE IF hours # 0
                  THEN Record(<<ToString(hours), ":", Pad2(minutes), ":", Pad2(seconds)>>)
                  ELSE Record(<<ToString(minutes), ":", Pad2(seconds)>>)

\* the value of an outcome that returned (None for a None return)
ValueOf(o) == IF o.kind = "record" THEN o.value ELSE None

\* str(x) inside an f-string
PyStr(x) == IF x = None THEN <<"None">> ELSE x

\* s.split(sep)[0]
SplitFirst(s, sep) == Slice(s, 1, FirstIn(s, {sep}) - 1)

\* extract_video_id: the 11-character token after v=, /v/, youtu.be/ or
\* shorts/ ; the token is one atom of the URL
VideoIdAtoms == {"dQw4w9WgXcQ"}
extract_video_id(url) ==
    IF \E i \in 2..Len(url) : url[i] \in VideoIdAtoms /\ url[i - 1] \in {"v=", "/v/", "youtu.be/", "shorts/"}
    THEN LET i == CHOOSE k \in 2..Len(url) :
                     /\ url[k] \in VideoIdAtoms /\ url[k - 1] \in {"v=", "/v/", "youtu.be/", "shorts/"}
                     /\ \A j \in 2..(k - 1) : ~(url[j] \in VideoIdAtoms /\ url[j - 1] \in {"v=", "/v/", "youtu.be/", "shorts/"})
         IN  <<url[i]>>
    ELSE None

\* get_channel_statistics: channels().list(...).execute(), then the
\* subscriber count of the first item
get_channel_statistics(channel_id, yt) ==
    CASE yt.channels = "http_error" -> Raise("HttpError")
      [] yt.channels = "no_items" -> ReturnNone
      [] yt.channels = "no_statistics" -> Raise("KeyError")
      [] yt.channels = "no_subscriberCount" -> ReturnNone
      [] OTHER -> Record(yt.subscriberCount)

\* fetch_video_data: videos().list(...).execute(); None when no item; the
\* flattened record otherwise.  A request without a developer key is
\* answered 403, which execute() raises as HttpError.
fetch_video_data(video_id, yt) ==
    IF ~yt.api_key \/ yt.videos = "http_error" THEN Raise("HttpError")
    ELSE IF yt.videos = "no_items" THEN ReturnNone
    ELSE LET snippet == yt.item.snippet
             content == yt.item.contentDetails
             subs == get_channel_statistics(snippet.channelId, yt)
             dur == parse_youtube_duration_short(content.duration)
         IN  IF subs.kind = "raise" THEN subs
             ELSE IF dur.kind = "raise" THEN dur
             ELSE Record([
                 Title |-> snippet.title,
                 Description |-> snippet.description,
                 Creator |-> <<"https://www.youtube.com/channel/">> \o PyStr(snippet.channelId),
                 PublishDate |-> IF Truthy(snippet.publishedAt)
                                 THEN SplitFirst(snippet.publishedAt, "T") ELSE None,
                 ThumbnailUrl |-> snippet.thumbnail,
                 Language |-> snippet.defaultAudioLanguage,
                 Duration |-> ValueOf(dur),
                 Followers |-> ValueOf(subs)])

\* the HTTP requests fetch_video_data sends, in order
fetch_video_data_net(video_id, yt) ==
    IF ~yt.api_key \/ yt.videos \in {"http_error", "no_items"}
    THEN <<"youtube.videos.list">>
    ELSE <<"youtube.videos.list", "youtube.channels.list">>

(***************************************************************************)
(* TikTok normalizer (media_meta_data.py)                                  *)
(***************************************************************************)

\* fetch_tiktok_reel_metadata: GET the oEmbed endpoint; None on a
\* RequestException; the three fields of the JSON body otherwise
fetch_tiktok_reel_metadata(reel_url, tk) ==
    LET got == CASE tk.http = "connection_error" -> "ConnectionError"
                 [] tk.http = "timeout" -> "Timeout"
                 [] tk.http = "status_404" -> "HTTPError"
                 [] OTHER -> "ok"
    IN  IF got \in RequestExceptions THEN ReturnNone
        ELSE Record([Title |-> tk.body.title,
                     Creator |-> tk.body.author_url,
                     ThumbnailUrl |-> tk.body.thumbnail_url])

fetch_tiktok_reel_metadata_net(reel_url, tk) == <<"tiktok.oembed">>

\* the request fetch_instagram_meta sends: none for a url requests rejects
fetch_instagram_meta_net(url) == IF IsHttpUrl(url) THEN <<"instagram.page">> ELSE <<>>

NoFile == [exists |-> FALSE, lines |-> <<>>]
NoTable == [cols |-> {}, rows |-> <<>>]
NoLocals == [fn |-> "none"]
NoRemote == [name |-> None, id |-> None]

\* the script variables while a function is evaluated on its own
ScriptIdle ==
    /\ script = "none" /\ env = {} /\ cur_url = <<>> /\ results = Pending /\ trace = <<>>
    /\ files = [INPUT_CSV |-> NoFile, TEMP_CSV |-> NoFile]
    /\ df = NoTable /\ idx = 0 /\ success_count = 0 /\ skipped_error_count = 0
    /\ fs = {} /\ dl = NoLocals /\ runs = 0 /\ remote = NoRemote

\* the harness variables while a script runs
HarnessIdle == arg = <<>> /\ ret = Pending

\* The URLs the classifier is applied to, assembled from their parts.
UrlLead == {<<>>, <<" ">>}
UrlScheme == {<<>>, <<"https:", "//">>, <<"//">>}
UrlUserinfo == {<<>>, <<"user", "@">>}
UrlHostPrefix == {<<>>, <<"www.">>, <<"WWW.">>, <<"not">>}
UrlHostName == {<<>>, <<"youtube.com">>, <<"youtu.be">>, <<"tiktok.com">>,
                <<"instagram.com">>, <<"evil.org">>, <<"YouTube.COM">>,
                <<"TikTok.Com">>, <<"youtube.com", ".evil.org">>}
UrlPort == {<<>>, <<":", "443">>}
UrlPath == {<<>>, <<"/", "watch">>, <<"?", "youtube.com">>}

ClassifierUrls ==
    { l \o s \o u \o hp \o h \o p \o pa \o l :
        l \in UrlLead, s \in UrlScheme, u \in UrlUserinfo, hp \in UrlHostPrefix,
        h \in UrlHostName, p \in UrlPort, pa \in UrlPath }

\* The host of a URL as urllib defines it (SplitResult.hostname): the netloc
\* after the last "@" and before the first ":", lowered.
UrlHost(url) ==
    LET netloc == UrlNetloc(Strip(url))
        hostport == Slice(netloc, LastIn(netloc, {"@"}) + 1, Len(netloc))
    IN  Lower(Slice(hostport, 1, FirstIn(hostport, {":"}) - 1))

ClassifyInit ==
    /\ pc = "classify"
    /\ arg \in ClassifierUrls
    /\ ret = [main |-> "pending", meta |-> "pending"]
    /\ ScriptIdle

\* main.py: detect_platform(url)
CallDetectPlatform ==
    /\ pc = "classify"
    /\ ret.main = "pending"
    /\ ret' = [ret EXCEPT !.main = detect_platform(arg)]
    /\ UNCHANGED <<pc, arg, batchVars, mainVars>>

\* media_meta_data.py: detect_platform(url)
CallMetaDetectPlatform ==
    /\ pc = "classify"
    /\ ret.meta = "pending"
    /\ ret' = [ret EXCEPT !.meta = meta_detect_platform(arg)]
    /\ UNCHANGED <<pc, arg, batchVars, mainVars>>

ClassifyNext == CallDetectPlatform \/ CallMetaDetectPlatform

SpecClassify == ClassifyInit /\ [][ClassifyNext]_vars

(***************************************************************************)
(* The normalizers applied to what the providers can answer                *)
(***************************************************************************)
MaxStrLen == 4

TextChars == {"n", "a", "x", " "}
Texts(n) == UNION {[1..k -> TextChars] : k \in 0..n}

NoTag == [present |-> FALSE, content |-> None]
MetaTags == {NoTag, [present |-> TRUE, content |-> None]}
            \cup {[present |-> TRUE, content |-> t] : t \in Texts(MaxStrLen)}
ImageTags == {NoTag, [present |-> TRUE, content |-> Nan],
              [present |-> TRUE, content |-> <<"x">>]}
NoPage == [parse |-> "none", description |-> NoTag, image |-> NoTag]
Pages == {[parse |-> "error", description |-> NoTag, image |-> NoTag]}
         \cup [parse : {"ok"}, description : MetaTags, image : ImageTags]

InstagramUrl == <<"https:", "//", "www.", "instagram.com", "/", "reel">>
InstaUrls == {<<>>, <<"//", "instagram.com", "/", "reel">>, InstagramUrl}
HttpOutcomes == {"connection_error", "timeout", "status_404", "status_500", "status_200"}

InstagramArgs ==
    {a \in [fn : {"instagram", "temp_instagram"}, url : InstaUrls,
            http : HttpOutcomes, page : {NoPage}] :
        ~(IsHttpUrl(a.url) /\ a.http = "status_200")}
    \cup [fn : {"instagram", "temp_instagram"}, url : {InstagramUrl},
          http : {"status_200"}, page : Pages]

OptionalOf(v) == {None, v}
Durations == {None, <<"PT", "1", "H", "2", "M", "3", "S">>, <<"PT", "5", "M", "9", "S">>,
              <<"PT", "45", "S">>, <<"PT", "0", "S">>, <<"P", "1", "D", "T", "2", "H">>}
NoItem == [snippet |-> [title |-> None, description |-> None, channelId |-> None,
                        publishedAt |-> None, thumbnail |-> None,
                        defaultAudioLanguage |-> None],
           contentDetails |-> [duration |-> None]]
Items ==
    [snippet : [title : OptionalOf(<<"Title">>),
                description : OptionalOf(<<"Text">>),
                channelId : OptionalOf(<<"UC123">>),
                publishedAt : OptionalOf(<<"2024-01-02", "T", "03:04:05Z">>),
                thumbnail : OptionalOf(<<"https://i.ytimg.com/d.jpg">>),
                defaultAudioLanguage : OptionalOf(<<"en">>)],
     contentDetails : [duration : Durations]]
ChannelOutcomes == {"http_error", "no_items", "no_statistics", "no_subscriberCount", "item"}

YoutubeWorlds ==
    [api_key : BOOLEAN, videos : {"http_error", "no_items"}, item : {NoItem},
     channels : {"no_items"}, subscriberCount : {<<"1000">>}]
    \cup [api_key : {TRUE}, videos : {"item"}, item : Items,
          channels : ChannelOutcomes, subscriberCount : {<<"1000">>}]
YoutubeArgs == [fn : {"youtube"}, video_id : {<<"dQw4w9WgXcQ">>}, yt : YoutubeWorlds]

NoBody == [title |-> None, author_url |-> None, thumbnail_url |-> None]
TiktokBodies == [title : OptionalOf(<<"Title">>),
                 author_url : OptionalOf(<<"https://www.tiktok.com/@user">>),
                 thumbnail_url : OptionalOf(<<"https://p16.tiktokcdn.com/t.jpg">>)]
TiktokWorlds ==
    [http : {"connection_error", "timeout", "status_404"}, body : {NoBody}]
    \cup [http : {"status_200"}, body : TiktokBodies]
TiktokUrl == <<"https:", "//", "www.", "tiktok.com", "/", "@user/video/1">>
TiktokArgs == [fn : {"tiktok"}, url : {TiktokUrl}, tk : TiktokWorlds]

NormalizeInit ==
    /\ pc = "normalize"
    /\ \/ arg \in InstagramArgs
       \/ arg \in YoutubeArgs
       \/ arg \in TiktokArgs
    /\ ret = Pending
    /\ ScriptIdle

\* media_meta_data.py: fetch_instagram_meta(url)
CallFetchInstagramMeta ==
    /\ pc = "normalize" /\ arg.fn = "instagram" /\ ret = Pending
    /\ ret' = fetch_instagram_meta(arg.url, arg.http, arg.page)
    /\ UNCHANGED <<pc, arg, batchVars, mainVars>>

\* temp.py: fetch_instagram_meta(url)
CallTempFetchInstagramMeta ==
    /\ pc = "normalize" /\ arg.fn = "temp_instagram" /\ ret = Pending
    /\ ret' = temp_fetch_instagram_meta(arg.url, arg.http, arg.page)
    /\ UNCHANGED <<pc, arg, batchVars, mainVars>>

\* media_meta_data.py: fetch_video_data(video_id)
CallFetchVideoData ==
    /\ pc = "normalize" /\ arg.fn = "youtube" /\ ret = Pending
    /\ ret' = fetch_video_data(arg.video_id, arg.yt)
    /\ UNCHANGED <<pc, arg, batchVars, mainVars>>

\* media_meta_data.py: fetch_tiktok_reel_metadata(reel_url)
CallFetchTiktokReelMetadata ==
    /\ pc = "normalize" /\ arg.fn = "tiktok" /\ ret = Pending
    /\ ret' = fetch_tiktok_reel_metadata(arg.url, arg.tk)
    /\ UNCHANGED <<pc, arg, batchVars, mainVars>>

NormalizeNext ==
    \/ CallFetchInstagramMeta
    \/ CallTempFetchInstagramMeta
    \/ CallFetchVideoData
    \/ CallFetchTiktokReelMetadata

SpecNormalize == NormalizeInit /\ [][NormalizeNext]_vars

(***************************************************************************)
(* Metadata dispatcher (media_meta_data.py)                                *)
(***************************************************************************)
Ev(e, w) == [ev |-> e, what |-> w]
NetEvents(calls) == [i \in 1..Len(calls) |-> Ev("net", calls[i])]

\* a call of a normalizer, as the dispatcher's caller sees it: the call,
\* the requests it sent, and what it returned or raised
CallTrace(name, net, out) ==
    <<Ev("call", name)>> \o NetEvents(net) \o <<Ev("result", out)>>

download_metadata_retry_on_none(u, w) ==
    LET platform == meta_detect_platform(u)
        first == fetch_tiktok_reel_metadata(u, w.tk)
        yt == fetch_video_data(extract_video_id(u), w.yt)
        ig == fetch_instagram_meta(u, w.ig.http, w.ig.page)
    IN  CASE platform = "youtube" ->
               [out |-> yt,
                trace |-> <<Ev("classify", platform)>>
                          \o CallTrace("fetch_video_data",
                                       fetch_video_data_net(extract_video_id(u), w.yt), yt)]
          [] platform = "tiktok" ->
               [out |-> first,
                trace |-> <<Ev("classify", platform)>>
                          \o CallTrace("fetch_tiktok_reel_metadata",
                                       fetch_tiktok_reel_metadata_net(u, w.tk), first)
                          \o (IF first.kind = "none"
                              THEN CallTrace("fetch_tiktok_reel_metadata",
                                             fetch_tiktok_reel_metadata_net(u, w.tk), first)
                              ELSE <<>>)]
          [] platform = "instagram" ->
               [out |-> ig,
                trace |-> <<Ev("classify", platform)>>
                          \o CallTrace("fetch_instagram_meta", fetch_instagram_meta_net(u), ig)]
          [] OTHER -> [out |-> ReturnNone, trace |-> <<Ev("classify", platform)>>]

\* download_metadata(row_num, url): classify, then the matching normalizer
download_metadata(u, w) ==
    LET platform == meta_detect_platform(u)
    IN  CASE platform = "unknown" ->
               [out |-> ReturnNone, trace |-> <<Ev("classify", platform)>>]
          [] platform = "youtube" ->
               LET vid == extract_video_id(u)
                   o == fetch_video_data(vid, w.yt)
               IN  [out |-> o,
                    trace |-> <<Ev("classify", platform)>>
                              \o CallTrace("fetch_video_data", fetch_video_data_net(vid, w.yt), o)]
          [] platform = "tiktok" ->
               LET o == fetch_tiktok_reel_metadata(u, w.tk)
               IN  [out |-> o,
                    trace |-> <<Ev("classify", platform)>>
                              \o CallTrace("fetch_tiktok_reel_metadata",
                                           fetch_tiktok_reel_metadata_net(u, w.tk), o)]
          [] platform = "instagram" ->
               LET o == fetch_instagram_meta(u, w.ig.http, w.ig.page)
               IN  [out |-> o,
                    trace |-> <<Ev("classify", platform)>>
                              \o CallTrace("fetch_instagram_meta", fetch_instagram_meta_net(u), o)]

(***************************************************************************)
(* The batch run (media_meta_data.py main loop)                            *)
(***************************************************************************)
NRows == 2

YoutubeUrl == <<"https:", "//", "www.", "youtube.com", "/", "watch", "?", "v=", "dQw4w9WgXcQ">>
UnknownUrl == <<"https:", "//", "evil.org", "/", "clip">>

\* the URL cells of the table file: empty, or a URL of each kind
TableUrls == {<<>>, YoutubeUrl, TiktokUrl, InstagramUrl, UnknownUrl}

\* what the providers answer while the batch runs
FullItem == [snippet |-> [title |-> <<"Title">>, description |-> <<"Text">>,
                          channelId |-> <<"UC123">>,
                          publishedAt |-> <<"2024-01-02", "T", "03:04:05Z">>,
                          thumbnail |-> <<"https://i.ytimg.com/d.jpg">>,
                          defaultAudioLanguage |-> <<"en">>],
             contentDetails |-> [duration |-> <<"PT", "5", "M", "9", "S">>]]
DefaultYt == [api_key |-> TRUE, videos |-> "no_items", item |-> NoItem,
              channels |-> "no_items", subscriberCount |-> <<"1000">>]
DefaultTk == [http |-> "connection_error", body |-> NoBody]
DefaultIg == [http |-> "status_404", page |-> NoPage]
FullBody == [title |-> <<"Title">>, author_url |-> <<"https://www.tiktok.com/@user">>,
             thumbnail_url |-> <<"https://p16.tiktokcdn.com/t.jpg">>]
FullPage == [parse |-> "ok",
             description |-> [present |-> TRUE, content |-> <<"x", " ", "a">>],
             image |-> [present |-> TRUE, content |-> <<"x">>]]

BatchWorlds(platform, e) ==
    CASE platform = "youtube" ->
           IF "YOUTUBE_DATA_API" \in e
           THEN {[yt |-> [DefaultYt EXCEPT !.videos = v, !.item = i, !.channels = "item"],
                  tk |-> DefaultTk, ig |-> DefaultIg] :
                    v \in {"no_items", "item"},
                    i \in {FullItem, [FullItem EXCEPT !.contentDetails.duration = None]}}
           ELSE {[yt |-> [DefaultYt EXCEPT !.api_key = FALSE], tk |-> DefaultTk, ig |-> DefaultIg]}
      [] platform = "tiktok" ->
           {[yt |-> DefaultYt, tk |-> t, ig |-> DefaultIg] :
                t \in {DefaultTk, [http |-> "status_200", body |-> FullBody]}}
      [] platform = "instagram" ->
           {[yt |-> DefaultYt, tk |-> DefaultTk, ig |-> g] :
                g \in {DefaultIg, [http |-> "status_200", page |-> FullPage]}}
      [] OTHER -> {[yt |-> DefaultYt, tk |-> DefaultTk, ig |-> DefaultIg]}

\* a table file: the header line, then one line per row
HeaderLine(cols) == [header |-> TRUE, cols |-> cols]
RowLine(u, cells) == [header |-> FALSE, url |-> u, cells |-> cells]

\* to_csv writes None as an empty cell
CsvCell(v) == IF v = None THEN <<>> ELSE v

\* df.to_csv(path, index=False): the lines written
Serialize(t) ==
    <<HeaderLine(t.cols)>>
    \o [i \in 1..Len(t.rows) |->
          RowLine(t.rows[i].url,
                  [k \in t.cols |-> IF k \in DOMAIN t.rows[i].meta
                                    THEN CsvCell(t.rows[i].meta[k]) ELSE <<>>])]

\* pd.read_csv, astype(str) and the replace of the cells that read "nan":
\* an empty cell is NaN, "nan" after astype(str), and "" after the replace
ReadCell(c) ==
    LET v == IF c = <<>> THEN Nan ELSE c
    IN  IF Strip(v) = Nan THEN <<>> ELSE v

ReadTable(file) ==
    [cols |-> file.lines[1].cols,
     rows |-> [i \in 1..(Len(file.lines) - 1) |->
                  [url |-> ReadCell(file.lines[i + 1].url),
                   meta |-> [k \in file.lines[1].cols |-> ReadCell(file.lines[i + 1].cells[k])]]]]

\* the table files the run can start from: NRows rows, no metadata columns
StartFiles ==
    {[exists |-> TRUE,
      lines |-> <<HeaderLine({})>> \o [i \in 1..NRows |-> RowLine(us[i], <<>>)]] :
        us \in [1..NRows -> TableUrls]}

BatchInit ==
    /\ pc = "read"
    /\ script = "media_meta_data"
    /\ env \in {{}, {"YOUTUBE_DATA_API"}}
    /\ cur_url = <<>> /\ results = Pending /\ trace = <<>>
    /\ files \in [INPUT_CSV : StartFiles, TEMP_CSV : {NoFile}]
    /\ df = NoTable /\ idx = 0 /\ success_count = 0 /\ skipped_error_count = 0
    /\ fs = {} /\ dl = NoLocals /\ runs = 0 /\ remote = NoRemote
    /\ HarnessIdle

At(p) == script = "media_meta_data" /\ pc = p

\* open(path, "w"): the file exists and is empty
Truncated == [exists |-> TRUE, lines |-> <<>>]
Prefixes(lines) == {SubSeq(lines, 1, k) : k \in 0..(Len(lines) - 1)}

\* the classes the row's `except Exception` catches
RowCaughtOnlyRequests == RequestExceptions
RowCaught == ExceptionClasses

\* the file the loop rewrites after each successful row
LiveCsvPathIsInput == "INPUT_CSV"
LiveCsvPath == "TEMP_CSV"

\* the value written to a cell: a text that reads "nan" becomes ""
CoerceNan(v) == IF v # None /\ Lower(v) = Nan THEN <<>> ELSE v

\* the end of a row that failed: counted, and on to the next row
RowSkipped ==
    /\ skipped_error_count' = skipped_error_count + 1
    /\ idx' = idx + 1
    /\ pc' = "loop"

\* df = pd.read_csv(INPUT_CSV), astype(str), replace
ReadCsv ==
    /\ At("read")
    /\ df' = ReadTable(files.INPUT_CSV)
    /\ pc' = "create_open"
    /\ UNCHANGED <<harnessVars, mainVars, script, env, cur_url, results, trace, files, idx,
                   success_count, skipped_error_count>>

\* read_csv raises: the outer except ends the run
ReadCsvFails ==
    /\ At("read")
    /\ pc' = "failed"
    /\ UNCHANGED <<harnessVars, mainVars, batchVars>>

\* df.to_csv(TEMP_CSV) before the loop: the file is opened for writing ...
CreateTempOpen ==
    /\ At("create_open")
    /\ files' = [files EXCEPT !.TEMP_CSV = Truncated]
    /\ pc' = "create_write"
    /\ UNCHANGED <<harnessVars, mainVars, script, env, cur_url, results, trace, df, idx,
                   success_count, skipped_error_count>>

CreateTempOpenFails ==
    /\ At("create_open")
    /\ pc' = "failed"
    /\ UNCHANGED <<harnessVars, mainVars, batchVars>>

\* ... and the table is written to it
CreateTempWrite ==
    /\ At("create_write")
    /\ files' = [files EXCEPT !.TEMP_CSV = [exists |-> TRUE, lines |-> Serialize(df)]]
    /\ pc' = "loop"
    /\ UNCHANGED <<harnessVars, mainVars, script, env, cur_url, results, trace, df, idx,
                   success_count, skipped_error_count>>

CreateTempWriteFails ==
    /\ At("create_write")
    /\ \E part \in Prefixes(Serialize(df)) :
          files' = [files EXCEPT !.TEMP_CSV = [exists |-> TRUE, lines |-> part]]
    /\ pc' = "failed"
    /\ UNCHANGED <<harnessVars, mainVars, script, env, cur_url, results, trace, df, idx,
                   success_count, skipped_error_count>>

\* the head of the loop body: the row's URL, and the skip of a row without
RowStart ==
    /\ At("loop") /\ idx < Len(df.rows)
    /\ LET u == Strip(df.rows[idx + 1].url)
       IN  /\ cur_url' = u
           /\ IF u = <<>> \/ u = Nan
              THEN RowSkipped
              ELSE /\ pc' = "dispatch"
                   /\ UNCHANGED <<idx, skipped_error_count>>
    /\ results' = Pending /\ trace' = <<>>
    /\ UNCHANGED <<harnessVars, mainVars, script, env, files, df, success_count>>

\* results = download_metadata(idx + 1, url)
DownloadMetadata ==
    /\ At("dispatch")
    /\ \E w \in BatchWorlds(meta_detect_platform(cur_url), env) :
          LET r == download_metadata(cur_url, w)
          IN  results' = r.out /\ trace' = r.trace
    /\ pc' = "fetched"
    /\ UNCHANGED <<harnessVars, mainVars, script, env, cur_url, files, df, idx,
                   success_count, skipped_error_count>>

\* if results: the fields are written to the row, new columns added
StoreResults ==
    /\ At("fetched") /\ results.kind = "record"
    /\ LET row == df.rows[idx + 1]
           keys == DOMAIN results.value
           meta == [k \in (DOMAIN row.meta) \cup keys |->
                       IF k \in keys THEN CoerceNan(results.value[k]) ELSE row.meta[k]]
       IN  df' = [cols |-> df.cols \cup keys,
                  rows |-> [df.rows EXCEPT ![idx + 1] = [row EXCEPT !.meta = meta]]]
    /\ success_count' = success_count + 1
    /\ pc' = "live_open"
    /\ UNCHANGED <<harnessVars, mainVars, script, env, cur_url, results, trace, files, idx,
                   skipped_error_count>>

\* else: no record
RowNoRecord ==
    /\ At("fetched") /\ results.kind = "none"
    /\ RowSkipped
    /\ UNCHANGED <<harnessVars, mainVars, script, env, cur_url, results, trace, files, df,
                   success_count>>

\* the row raised: the row's except counts it; what it does not catch
\* reaches the outer except
RowExcept ==
    /\ At("fetched") /\ results.kind = "raise"
    /\ IF results.exc \in RowCaught
       THEN RowSkipped
       ELSE pc' = "failed" /\ UNCHANGED <<idx, skipped_error_count>>
    /\ UNCHANGED <<harnessVars, mainVars, script, env, cur_url, results, trace, files, df,
                   success_count>>

\* df.to_csv(TEMP_CSV) after a successful row: the file is opened ...
LiveOpen ==
    /\ At("live_open")
    /\ files' = [files EXCEPT ![LiveCsvPath] = Truncated]
    /\ pc' = "live_write"
    /\ UNCHANGED <<harnessVars, mainVars, script, env, cur_url, results, trace, df, idx,
                   success_count, skipped_error_count>>

LiveOpenFails ==
    /\ At("live_open")
    /\ IF "OSError" \in RowCaught
       THEN RowSkipped
       ELSE pc' = "failed" /\ UNCHANGED <<idx, skipped_error_count>>
    /\ UNCHANGED <<harnessVars, mainVars, script, env, cur_url, results, trace, files, df,
                   success_count>>

\* ... and the table is written to it
LiveWrite ==
    /\ At("live_write")
    /\ files' = [files EXCEPT ![LiveCsvPath] = [exists |-> TRUE, lines |-> Serialize(df)]]
    /\ idx' = idx + 1
    /\ pc' = "loop"
    /\ UNCHANGED <<harnessVars, mainVars, script, env, cur_url, results, trace, df,
                   success_count, skipped_error_count>>

LiveWriteFails ==
    /\ At("live_write")
    /\ \E part \in Prefixes(Serialize(df)) :
          files' = [files EXCEPT ![LiveCsvPath] = [exists |-> TRUE, lines |-> part]]
    /\ IF "OSError" \in RowCaught
       THEN RowSkipped
       ELSE pc' = "failed" /\ UNCHANGED <<idx, skipped_error_count>>
    /\ UNCHANGED <<harnessVars, mainVars, script, env, cur_url, results, trace, df,
                   success_count>>

\* os.replace(TEMP_CSV, INPUT_CSV) after the loop
Swap ==
    /\ At("loop") /\ idx = Len(df.rows)
    /\ files' = [INPUT_CSV |-> files.TEMP_CSV, TEMP_CSV |-> NoFile]
    /\ pc' = "done"
    /\ UNCHANGED <<harnessVars, mainVars, script, env, cur_url, results, trace, df, idx,
                   success_count, skipped_error_count>>

SwapFails ==
    /\ At("loop") /\ idx = Len(df.rows)
    /\ pc' = "failed"
    /\ UNCHANGED <<harnessVars, mainVars, batchVars>>

\* the process is interrupted (KeyboardInterrupt, kill): neither except
\* clause catches it and nothing more runs
BatchRunning == {"read", "create_open", "create_write", "loop", "dispatch", "fetched",
                 "live_open", "live_write"}
Interrupt ==
    /\ script = "media_meta_data" /\ pc \in BatchRunning
    /\ pc' = "interrupted"
    /\ UNCHANGED <<harnessVars, mainVars, batchVars>>

BatchNext ==
    \/ ReadCsv \/ ReadCsvFails
    \/ CreateTempOpen \/ CreateTempOpenFails
    \/ CreateTempWrite \/ CreateTempWriteFails
    \/ RowStart \/ DownloadMetadata
    \/ StoreResults \/ RowNoRecord \/ RowExcept
    \/ LiveOpen \/ LiveOpenFails \/ LiveWrite \/ LiveWriteFails
    \/ Swap \/ SwapFails
    \/ Interrupt

SpecBatch == BatchInit /\ [][BatchNext]_vars

(***************************************************************************)
(* The download flows (main.py)                                            *)
(***************************************************************************)
ForbiddenChars == {"<", ">", ":", "\"", "/", "\\", "|", "?", "*"}

\* sanitize_filename: re.sub(r'[<>:"/\\|?*]', '_', s)
sanitize_filename(name) ==
    [i \in 1..Len(name) |-> IF name[i] \in ForbiddenChars THEN "_" ELSE name[i]]

\* A path: whether it is absolute, and its segments.
RelPath(segs) == [abs |-> FALSE, segs |-> segs]

\* the segments of a name: the text between its "/" (empty ones dropped)
RECURSIVE SplitSlash(_)
SplitSlash(name) ==
    IF name = <<>> THEN <<>>
    ELSE LET k == FirstIn(name, {"/"})
             head == Slice(name, 1, k - 1)
             rest == SplitSlash(Slice(name, k + 1, Len(name)))
         IN  IF head = <<>> THEN rest ELSE <<head>> \o rest

\* os.path.join(dir, name): a name that starts with "/" replaces dir
Join(dir, name) ==
    IF name # <<>> /\ name[1] = "/"
    THEN [abs |-> TRUE, segs |-> SplitSlash(name)]
    ELSE [abs |-> dir.abs, segs |-> dir.segs \o SplitSlash(name)]

Dir(path) == [path |-> path, kind |-> "dir"]
File(path) == [path |-> path, kind |-> "file"]
Parent(path) == [path EXCEPT !.segs = Slice(path.segs, 1, Len(path.segs) - 1)]

\* the working directory and the root exist from the start
DirExists(tree, path) == path.segs = <<>> \/ Dir(path) \in tree

\* os.makedirs(path, exist_ok=True)
MakeDirs(tree, path) ==
    tree \cup {Dir([path EXCEPT !.segs = SubSeq(path.segs, 1, k)]) : k \in 1..Len(path.segs)}

\* os.path.exists(path)
PathExists(tree, path) == Dir(path) \in tree \/ File(path) \in tree

\* open(path, "w"): possible when the directory of the file exists
CanOpenForWrite(tree, path) ==
    /\ path.segs # <<>>
    /\ DirExists(tree, Parent(path))
    /\ Dir(path) \notin tree

MaxNameLen == 2
NameChars == {"a", ":", "/"}
Usernames == UNION {[1..k -> NameChars] : k \in 1..MaxNameLen}

\* what the RapidAPI endpoint answers
TiktokApiAnswers ==
    [http : {"connection_error", "status_500"}, downloadUrl : {None}, id : {None},
     username : {None}]
    \cup [http : {"status_200"}, downloadUrl : {None, <<"https://cdn/v.mp4">>},
          id : {None, <<"7">>}, username : {None} \cup Usernames]

YoutubeInfoAnswers ==
    [ok : {FALSE}, title : {<<>>}] \cup [ok : {TRUE}, title : Usernames]

InstagramPostAnswers ==
    [ok : {FALSE}, owner_username : {<<>>}] \cup [ok : {TRUE}, owner_username : Usernames]

\* The video a URL names stays the same from one run to the next: every answer
\* about it carries the same owner (or title) and id.  TikTok answers may lack
\* either field.
Remotes(platform) ==
    IF platform = "tiktok" THEN [name : {None} \cup Usernames, id : {None, <<"7">>}]
    ELSE IF platform \in {"youtube", "instagram"} THEN [name : Usernames, id : {None}]
    ELSE {NoRemote}

TiktokAnswersNow ==
    {a \in TiktokApiAnswers :
        a.http = "status_200" => (a.username = remote.name /\ a.id = remote.id)}
YoutubeAnswersNow == {a \in YoutubeInfoAnswers : a.ok => a.title = remote.name}
InstagramAnswersNow ==
    {a \in InstagramPostAnswers : a.ok => a.owner_username = remote.name}

ShortcodeUrl == <<"https:", "//", "www.", "instagram.com", "/", "reel", "/", "Cabc", "/">>
MainUrls == {<<>>, YoutubeUrl, TiktokUrl, ShortcodeUrl, UnknownUrl}
MainEnvs == {{}, {"RAPIDAPI_KEY"}, {"INSTA_USERNAME", "INSTA_PASSWORD"},
             {"RAPIDAPI_KEY", "INSTA_USERNAME"}}

MainInit ==
    /\ pc = "start"
    /\ script = "main"
    /\ env \in MainEnvs
    /\ cur_url \in MainUrls
    /\ results = Pending /\ trace = <<>>
    /\ files = [INPUT_CSV |-> NoFile, TEMP_CSV |-> NoFile]
    /\ df = NoTable /\ idx = 0 /\ success_count = 0 /\ skipped_error_count = 0
    /\ fs = {} /\ dl = NoLocals /\ runs = 1
    /\ remote \in Remotes(detect_platform(cur_url))
    /\ HarnessIdle

M(p) == script = "main" /\ pc = p
mainFrame == <<harnessVars, script, env, cur_url, files, df, idx, success_count,
               skipped_error_count, runs, remote>>

\* a request is sent
Sent(what) == Append(trace, Ev("net", what))

\* a download function returns or raises after the events tr: download_video
\* passes the result on
FinishAfter(tr, out) ==
    /\ results' = out
    /\ trace' = Append(tr, Ev("result", out))
    /\ pc' = IF out.kind = "raise" THEN "raised" ELSE "returned"

Finish(out) == FinishAfter(trace, out)

\* download_video: platform unknown
DownloadVideoUnknown ==
    /\ M("start") /\ detect_platform(cur_url) = "unknown"
    /\ trace' = <<Ev("classify", "unknown")>>
    /\ results' = ReturnNone
    /\ pc' = "returned"
    /\ UNCHANGED <<mainFrame, fs, dl>>

\* download_video: tiktok; the key is read before download_tiktok is called
DownloadVideoTiktok ==
    /\ M("start") /\ detect_platform(cur_url) = "tiktok"
    /\ IF "RAPIDAPI_KEY" \notin env
       THEN /\ trace' = <<Ev("classify", "tiktok")>>
            /\ results' = Raise("EnvironmentError")
            /\ pc' = "raised"
       ELSE /\ trace' = <<Ev("classify", "tiktok"), Ev("call", "download_tiktok")>>
            /\ pc' = "tk_info"
            /\ UNCHANGED results
    /\ UNCHANGED <<mainFrame, fs, dl>>

\* download_video: youtube
DownloadVideoYoutube ==
    /\ M("start") /\ detect_platform(cur_url) = "youtube"
    /\ trace' = <<Ev("classify", "youtube"), Ev("call", "download_youtube")>>
    /\ pc' = "yt_info"
    /\ UNCHANGED <<mainFrame, results, fs, dl>>

\* download_video: instagram; with both secrets set it logs in first
DownloadVideoInstagram ==
    /\ M("start") /\ detect_platform(cur_url) = "instagram"
    /\ IF {"INSTA_USERNAME", "INSTA_PASSWORD"} \subseteq env
       THEN \E loggedIn \in BOOLEAN :
               IF loggedIn
               THEN /\ trace' = <<Ev("classify", "instagram"), Ev("net", "instagram.login"),
                                  Ev("call", "download_instagram")>>
                    /\ pc' = "ig_post"
                    /\ UNCHANGED results
               ELSE /\ trace' = <<Ev("classify", "instagram"), Ev("net", "instagram.login")>>
                    /\ results' = Raise("InstaloaderException")
                    /\ pc' = "raised"
       ELSE /\ trace' = <<Ev("classify", "instagram"), Ev("call", "download_instagram")>>
            /\ pc' = "ig_post"
            /\ UNCHANGED results
    /\ UNCHANGED <<mainFrame, fs, dl>>

\* download_tiktok: the API request, the names and the paths
TiktokFetchInfo ==
    /\ M("tk_info")
    /\ \E a \in TiktokAnswersNow :
          IF a.http # "status_200"
          THEN /\ FinishAfter(Sent("rapidapi.media"),
                               Raise(IF a.http = "connection_error"
                                     THEN "ConnectionError" ELSE "HTTPError"))
               /\ UNCHANGED dl
          ELSE LET video_id == Or(a.id, <<"unknown_id">>)
                   username == IF a.username = None THEN <<"unknown_user">> ELSE a.username
                   stem == username \o <<"_">> \o video_id
                   folder_name == sanitize_filename(stem)
                   video_dir == RelPath(<<<<"downloads">>, <<"tiktok">>, folder_name>>)
               IN  IF ~Truthy(a.downloadUrl)
                   THEN /\ FinishAfter(Sent("rapidapi.media"), Raise("RuntimeError"))
                        /\ UNCHANGED dl
                   ELSE /\ dl' = [fn |-> "download_tiktok", data |-> a,
                                  dir |-> video_dir,
                                  video_path |-> Join(video_dir, stem \o <<".mp4">>),
                                  metadata_path |-> Join(video_dir, stem \o <<"_metadata.json">>)]
                        /\ trace' = Sent("rapidapi.media")
                        /\ pc' = "tk_mkdir"
                        /\ UNCHANGED results
    /\ UNCHANGED <<mainFrame, fs>>

\* os.makedirs(video_dir, exist_ok=True)
TiktokMakeDirs ==
    /\ M("tk_mkdir")
    /\ fs' = MakeDirs(fs, dl.dir)
    /\ pc' = "tk_exists"
    /\ UNCHANGED <<mainFrame, results, trace, dl>>

\* if os.path.exists(video_path): return data, video_path
TiktokCheckExists ==
    /\ M("tk_exists")
    /\ IF PathExists(fs, dl.video_path)
       THEN Finish(Record([data |-> dl.data, video_path |-> dl.video_path]))
       ELSE pc' = "tk_get" /\ UNCHANGED <<results, trace>>
    /\ UNCHANGED <<mainFrame, fs, dl>>

\* video_resp = requests.get(video_url, stream=True); raise_for_status()
TiktokVideoGet ==
    /\ M("tk_get")
    /\ \E ok \in BOOLEAN :
          IF ok THEN /\ trace' = Sent("tiktok.video") /\ pc' = "tk_video"
                     /\ UNCHANGED results
          ELSE FinishAfter(Sent("tiktok.video"), Raise("HTTPError"))
    /\ UNCHANGED <<mainFrame, fs, dl>>

\* with open(video_path, "wb") as f: open creates the file, then the chunks
\* are written; iter_content raises when the stream breaks
TiktokWriteVideo ==
    /\ M("tk_video")
    /\ IF CanOpenForWrite(fs, dl.video_path)
       THEN /\ fs' = fs \cup {File(dl.video_path)}
            /\ \E whole \in BOOLEAN :
                  IF whole THEN pc' = "tk_meta" /\ UNCHANGED <<results, trace>>
                  ELSE Finish(Raise("ChunkedEncodingError"))
       ELSE Finish(Raise("OSError")) /\ UNCHANGED fs
    /\ UNCHANGED <<mainFrame, dl>>

\* with open(metadata_path, "w") as mf: json.dump; return data, video_path
TiktokWriteMetadata ==
    /\ M("tk_meta")
    /\ IF CanOpenForWrite(fs, dl.metadata_path)
       THEN /\ fs' = fs \cup {File(dl.metadata_path)}
            /\ Finish(Record([data |-> dl.data, video_path |-> dl.video_path]))
       ELSE Finish(Raise("OSError")) /\ UNCHANGED fs
    /\ UNCHANGED <<mainFrame, dl>>

\* download_youtube: extract_info, the sanitized title and the paths
YoutubeExtractInfo ==
    /\ M("yt_info")
    /\ \E a \in YoutubeAnswersNow :
          IF ~a.ok
          THEN FinishAfter(Sent("youtube.extract_info"), Raise("DownloadError")) /\ UNCHANGED dl
          ELSE LET video_title == sanitize_filename(a.title)
                   folder_path == RelPath(<<<<"downloads">>, <<"youtube">>, video_title>>)
               IN  /\ dl' = [fn |-> "download_youtube", data |-> a,
                             dir |-> folder_path,
                             video_path |-> Join(folder_path, video_title \o <<".mp4">>),
                             metadata_path |-> Join(folder_path, <<"metadata.json">>)]
                   /\ trace' = Sent("youtube.extract_info")
                   /\ pc' = "yt_mkdir"
                   /\ UNCHANGED results
    /\ UNCHANGED <<mainFrame, fs>>

\* os.makedirs(folder_path, exist_ok=True)
YoutubeMakeDirs ==
    /\ M("yt_mkdir")
    /\ fs' = MakeDirs(fs, dl.dir)
    /\ pc' = "yt_exists"
    /\ UNCHANGED <<mainFrame, results, trace, dl>>

\* if os.path.exists(video_path): return metadata, video_path
YoutubeCheckExists ==
    /\ M("yt_exists")
    /\ IF PathExists(fs, dl.video_path)
       THEN Finish(Record([data |-> dl.data, video_path |-> dl.video_path]))
       ELSE pc' = "yt_meta" /\ UNCHANGED <<results, trace>>
    /\ UNCHANGED <<mainFrame, fs, dl>>

\* with open(metadata_path, 'w') as f: json.dump(metadata, f)
YoutubeWriteMetadata ==
    /\ M("yt_meta")
    /\ IF CanOpenForWrite(fs, dl.metadata_path)
       THEN /\ fs' = fs \cup {File(dl.metadata_path)}
            /\ pc' = "yt_download"
            /\ UNCHANGED <<results, trace>>
       ELSE Finish(Raise("OSError")) /\ UNCHANGED fs
    /\ UNCHANGED <<mainFrame, dl>>

\* ydl.download([url]) with outtmpl folder_path/%(title)s.%(ext)s: yt-dlp
\* names the file itself; it is taken to write the file the code expects
YoutubeDownload ==
    /\ M("yt_download")
    /\ \E ok \in BOOLEAN :
          IF ok
          THEN /\ fs' = fs \cup {File(dl.video_path)}
               /\ FinishAfter(Sent("youtube.download"),
                              Record([data |-> dl.data, video_path |-> dl.video_path]))
          ELSE FinishAfter(Sent("youtube.download"), Raise("DownloadError")) /\ UNCHANGED fs
    /\ UNCHANGED <<mainFrame, dl>>

\* url.strip("/").split("/")[-1]
Shortcode(u) ==
    LET seps == {"/", "//"}
        keep == {i \in 1..Len(u) : u[i] \notin seps}
        hi == IF keep = {} THEN 0 ELSE CHOOSE i \in keep : \A j \in keep : i >= j
        t == Slice(u, 1, hi)
    IN  Slice(t, LastIn(t, seps) + 1, Len(t))

\* download_instagram: the post of the shortcode, the names and the paths
InstagramFetchPost ==
    /\ M("ig_post")
    /\ \E a \in InstagramAnswersNow :
          IF ~a.ok
          THEN FinishAfter(Sent("instagram.post"), Raise("InstaloaderException")) /\ UNCHANGED dl
          ELSE LET stem == a.owner_username \o <<"_">> \o Shortcode(cur_url)
                   folder_path == RelPath(<<<<"downloads">>, <<"instagram">>,
                                            sanitize_filename(stem)>>)
               IN  /\ dl' = [fn |-> "download_instagram", data |-> a,
                             dir |-> folder_path,
                             video_path |-> Join(folder_path,
                                                 sanitize_filename(stem \o <<".mp4">>)),
                             metadata_path |-> Join(folder_path, <<"metadata.json">>)]
                   /\ trace' = Sent("instagram.post")
                   /\ pc' = "ig_mkdir"
                   /\ UNCHANGED results
    /\ UNCHANGED <<mainFrame, fs>>

\* os.makedirs(folder_path, exist_ok=True)
InstagramMakeDirs ==
    /\ M("ig_mkdir")
    /\ fs' = MakeDirs(fs, dl.dir)
    /\ pc' = "ig_exists"
    /\ UNCHANGED <<mainFrame, results, trace, dl>>

\* if os.path.exists(video_path): return
InstagramCheckExists ==
    /\ M("ig_exists")
    /\ IF PathExists(fs, dl.video_path)
       THEN Finish(ReturnNone)
       ELSE pc' = "ig_get" /\ UNCHANGED <<results, trace>>
    /\ UNCHANGED <<mainFrame, fs, dl>>

\* with requests.get(post.video_url, stream=True) as r: open creates the
\* file, then the chunks are written; iter_content raises when the stream breaks
InstagramWriteVideo ==
    /\ M("ig_get")
    /\ \E ok \in BOOLEAN :
          IF ~ok THEN FinishAfter(Sent("instagram.video"), Raise("HTTPError")) /\ UNCHANGED fs
          ELSE IF CanOpenForWrite(fs, dl.video_path)
          THEN /\ fs' = fs \cup {File(dl.video_path)}
               /\ \E whole \in BOOLEAN :
                     IF whole
                     THEN /\ trace' = Sent("instagram.video")
                          /\ pc' = "ig_meta"
                          /\ UNCHANGED results
                     ELSE FinishAfter(Sent("instagram.video"), Raise("ChunkedEncodingError"))
          ELSE FinishAfter(Sent("instagram.video"), Raise("OSError")) /\ UNCHANGED fs
    /\ UNCHANGED <<mainFrame, dl>>

\* with open(metadata_path, "w") as f: json.dump; return metadata, video_path
InstagramWriteMetadata ==
    /\ M("ig_meta")
    /\ IF CanOpenForWrite(fs, dl.metadata_path)
       THEN /\ fs' = fs \cup {File(dl.metadata_path)}
            /\ Finish(Record([data |-> dl.data, video_path |-> dl.video_path]))
       ELSE Finish(Raise("OSError")) /\ UNCHANGED fs
    /\ UNCHANGED <<mainFrame, dl>>

MaxRuns == 2

\* the command is over: download_video returned, or its exception was printed
\* by the except Exception of __main__, or the process was killed
MainOver == script = "main" /\ pc \in {"returned", "raised", "interrupted"}

\* the process is killed while a download function runs: KeyboardInterrupt is
\* not an Exception, nothing catches it and nothing is undone
MainInterrupt ==
    /\ script = "main" /\ pc \notin {"start", "returned", "raised", "interrupted"}
    /\ pc' = "interrupted"
    /\ results' = Raise("KeyboardInterrupt")
    /\ UNCHANGED <<mainFrame, trace, fs, dl>>

\* the command is started again with the same URL: the files stay, the
\* process starts afresh
MainRerun ==
    /\ MainOver /\ runs < MaxRuns
    /\ runs' = runs + 1
    /\ pc' = "start"
    /\ results' = Pending /\ trace' = <<>> /\ dl' = NoLocals
    /\ UNCHANGED <<harnessVars, script, env, cur_url, files, df, idx, success_count,
                   skipped_error_count, fs, remote>>

MainNext ==
    \/ MainInterrupt \/ MainRerun
    \/ DownloadVideoUnknown \/ DownloadVideoTiktok
    \/ DownloadVideoYoutube \/ DownloadVideoInstagram
    \/ TiktokFetchInfo \/ TiktokMakeDirs \/ TiktokCheckExists
    \/ TiktokVideoGet \/ TiktokWriteVideo \/ TiktokWriteMetadata
    \/ YoutubeExtractInfo \/ YoutubeMakeDirs \/ YoutubeCheckExists
    \/ YoutubeWriteMetadata \/ YoutubeDownload
    \/ InstagramFetchPost \/ InstagramMakeDirs \/ InstagramCheckExists
    \/ InstagramWriteVideo \/ InstagramWriteMetadata

SpecMain == MainInit /\ [][MainNext]_vars

\* either script runs
Init == BatchInit \/ MainInit
Next == BatchNext \/ MainNext
Spec == Init /\ [][Next]_vars

(***************************************************************************)
(* Claims about the batch run                                              *)
(***************************************************************************)
InBatch == script = "media_meta_data"
AllRowsVisited == pc = "loop" /\ idx = Len(df.rows)

\* the table as it was read, without the metadata the run added
AsRead(t) == [cols |-> {}, rows |-> [i \in 1..Len(t.rows) |-> [url |-> t.rows[i].url, meta |-> <<>>]]]

\* C1: the original table file is modified by exactly one step, the final
\* swap, taken only after every row has been visited; a run interrupted
\* before the swap leaves the original file as it was when the run started.
C1_OriginalOnlySwapped ==
    /\ [][(InBatch /\ files'.INPUT_CSV # files.INPUT_CSV) => (AllRowsVisited /\ pc' = "done")]_vars
    /\ []((InBatch /\ pc = "interrupted" /\ df # NoTable) =>
             files.INPUT_CSV = [exists |-> TRUE, lines |-> Serialize(AsRead(df))])

C1_WitnessInterruptedAfterRows ==
    /\ InBatch /\ pc = "interrupted"
    /\ idx >= 1 /\ success_count >= 1
    /\ files.TEMP_CSV = [exists |-> TRUE, lines |-> Serialize(df)]
    /\ files.TEMP_CSV.lines[1].cols # {}
    /\ files.INPUT_CSV.lines[1].cols = {}

\* the row in flight fails: its URL is missing, or the dispatcher returned no
\* record (unknown platform, no item, request failed) or raised
MissingUrl(u) == Strip(u) = <<>> \/ Strip(u) = Nan
RowFails ==
    \/ At("loop") /\ idx < Len(df.rows) /\ MissingUrl(df.rows[idx + 1].url)
    \/ At("fetched") /\ results.kind \in {"none", "raise"}

\* C2: a failure on a row increments the skipped/errored counter and the
\* loop proceeds to the next row; the run is abandoned only by steps outside
\* the rows (read, temp creation, swap), and the swap follows the last row.
C2_RowFailureNeverAborts ==
    /\ [][(RowFails /\ pc' # "interrupted") =>
             /\ skipped_error_count' = skipped_error_count + 1
             /\ success_count' = success_count
             /\ idx' = idx + 1
             /\ pc' = "loop"]_vars
    /\ [][(InBatch /\ pc' = "failed") =>
             (pc \in {"read", "create_open", "create_write"} \/ AllRowsVisited)]_vars
    /\ []((InBatch /\ pc = "done") => idx = Len(df.rows))

C2_WitnessAllRowsFailedSwapReached ==
    /\ InBatch /\ pc = "done"
    /\ idx = NRows /\ skipped_error_count = NRows /\ success_count = 0
    /\ results.kind = "raise"
    /\ files.INPUT_CSV.exists

IsCompleteTable(file, t) ==
    /\ file.exists
    /\ Len(file.lines) = Len(t.rows) + 1
    /\ file.lines[1].header
    /\ \A i \in 1..Len(t.rows) : ~file.lines[i + 1].header

\* C3: at every point after the temp file was created at which the run can
\* be interrupted, the temp file is a complete table that holds the
\* metadata of every row processed successfully so far.
C3_TempAlwaysSnapshot ==
    (InBatch /\ pc \in {"loop", "dispatch", "fetched", "live_open", "live_write"}) =>
        /\ IsCompleteTable(files.TEMP_CSV, df)
        /\ \A i \in 1..idx : \A k \in DOMAIN df.rows[i].meta :
              /\ k \in files.TEMP_CSV.lines[1].cols
              /\ files.TEMP_CSV.lines[i + 1].cells[k] = CsvCell(df.rows[i].meta[k])

(***************************************************************************)
(* Claims about the dispatchers and the download flows                     *)
(***************************************************************************)
InMain == script = "main"

\* the processing of the current URL has ended
Finished == (InBatch /\ pc = "fetched") \/ (InMain /\ pc \in {"returned", "raised"})

Events(kind) == {i \in DOMAIN trace : trace[i].ev = kind}
Classified == trace # <<>> /\ trace[1].ev = "classify"
Tag == trace[1].what

\* the platform whose credential the script needs and does not have
CredentialMissing ==
    \/ InMain /\ Tag = "tiktok" /\ "RAPIDAPI_KEY" \notin env
    \/ InBatch /\ Tag = "youtube" /\ "YOUTUBE_DATA_API" \notin env

\* C7: when the credential the URL's platform requires is absent, the
\* operation fails with an error before any HTTP/SDK call is made for the URL.
C7_MissingCredentialBeforeNetwork ==
    (Classified /\ CredentialMissing) =>
        /\ Events("net") = {}
        /\ Finished => results.kind = "raise"

\* the normalizer of a platform tag in each script
NormalizerOf(tag) ==
    IF InBatch
    THEN CASE tag = "youtube" -> "fetch_video_data"
           [] tag = "tiktok" -> "fetch_tiktok_reel_metadata"
           [] tag = "instagram" -> "fetch_instagram_meta"
           [] OTHER -> "none"
    ELSE CASE tag = "youtube" -> "download_youtube"
           [] tag = "tiktok" -> "download_tiktok"
           [] tag = "instagram" -> "download_instagram"
           [] OTHER -> "none"

\* C8: the dispatcher classifies the URL first, then invokes at most one
\* normalizer, the one of the platform tag, once, and returns its result
\* verbatim; for an unknown tag it returns no record and calls no normalizer
\* and no network collaborator.
C8_DispatchOnceToMatchingNormalizer ==
    trace # <<>> =>
        /\ Classified
        /\ Events("classify") = {1}
        /\ Tag = (IF InBatch THEN meta_detect_platform(cur_url) ELSE detect_platform(cur_url))
        /\ Cardinality(Events("call")) <= 1
        /\ Cardinality(Events("result")) <= Cardinality(Events("call"))
        /\ \A i \in Events("call") : trace[i].what = NormalizerOf(Tag)
        /\ Tag = "unknown" =>
              (Events("call") = {} /\ Events("net") = {} /\ results.kind = "none")
        /\ (Finished /\ Events("call") # {} /\ Events("result") # {}) =>
              (trace[Len(trace)].ev = "result" /\ results = trace[Len(trace)].what)
        /\ (Finished /\ Events("call") # {}) => Events("result") # {}

C8_WitnessOneNormalizerCalled ==
    /\ InBatch /\ pc = "fetched"
    /\ Tag = "tiktok"
    /\ Cardinality(Events("call")) = 1 /\ Events("net") # {}
    /\ results.kind = "none"

\* C10: no path segment created by download_tiktok, download_youtube or
\* download_instagram (video file, sidecar file, per-video directory)
\* contains any of the characters < > : " / \ | ? *
C10_NoForbiddenCharInCreatedPaths ==
    \A e \in fs : \A i \in 1..Len(e.path.segs) : \A j \in 1..Len(e.path.segs[i]) :
        e.path.segs[i][j] \notin ForbiddenChars

(***************************************************************************)
(* Claims about the normalizers                                            *)
(***************************************************************************)
Returned == pc = "normalize" /\ ret # Pending

\* the provider answered with a matching item / body
YoutubeItemObtained ==
    arg.fn = "youtube" /\ arg.yt.api_key /\ arg.yt.videos = "item"
    /\ arg.yt.channels # "http_error"
TiktokBodyObtained == arg.fn = "tiktok" /\ arg.tk.http = "status_200"

\* C4: whenever the provider returns a matching item/body in which some
\* fields are absent, the normalizer returns a record (it neither raises nor
\* returns the no-record signal) in which exactly the absent fields are null
\* and every present field carries its value.
C4_AbsentFieldsYieldRecord ==
    /\ (Returned /\ YoutubeItemObtained) =>
          LET sn == arg.yt.item.snippet
              cd == arg.yt.item.contentDetails
          IN  /\ ret.kind = "record"
              /\ ret.value.Title = sn.title
              /\ ret.value.Description = sn.description
              /\ ret.value.Creator =
                    (IF sn.channelId = None THEN None
                     ELSE <<"https://www.youtube.com/channel/">> \o sn.channelId)
              /\ ret.value.PublishDate =
                    (IF sn.publishedAt = None THEN None
                     ELSE SplitFirst(sn.publishedAt, "T"))
              /\ ret.value.ThumbnailUrl = sn.thumbnail
              /\ ret.value.Language = sn.defaultAudioLanguage
              /\ (ret.value.Duration = None) <=> (cd.duration = None)
              /\ (ret.value.Followers = None) <=> (arg.yt.channels # "item")
    /\ (Returned /\ TiktokBodyObtained) =>
          /\ ret.kind = "record"
          /\ ret.value.Title = arg.tk.body.title
          /\ ret.value.Creator = arg.tk.body.author_url
          /\ ret.value.ThumbnailUrl = arg.tk.body.thumbnail_url

InstagramCall == arg.fn \in {"instagram", "temp_instagram"}
InstagramFetched ==
    IsHttpUrl(arg.url) /\ arg.http = "status_200" /\ arg.page.parse = "ok"

\* C5: the Instagram normalizer never raises; for every outcome of the GET
\* and of the parse it returns a record with the keys description and
\* thumbnail, both strings, both empty when the page could not be fetched or
\* parsed.
C5_InstagramNeverRaises ==
    (Returned /\ InstagramCall) =>
        /\ ret.kind = "record"
        /\ {"description", "thumbnail"} \subseteq DOMAIN ret.value
        /\ ret.value.description # None
        /\ ret.value.thumbnail # None
        /\ ~InstagramFetched =>
              (ret.value.description = <<>> /\ ret.value.thumbnail = <<>>)

C5_Witness404 ==
    /\ Returned /\ arg.fn = "instagram"
    /\ IsHttpUrl(arg.url) /\ arg.http = "status_404"
    /\ ret.kind = "record"
    /\ ret.value.description = <<>> /\ ret.value.thumbnail = <<>>

\* the placeholders, and the value the claim expects for a field
IsPlaceholder(v) == v = None \/ v = Nan
Coerced(v) == IF IsPlaceholder(v) THEN <<>> ELSE v
TagValue(tag) == IF tag.present /\ tag.content # None THEN Strip(tag.content) ELSE None

\* C6: in the record of the Instagram normalizer of media_meta_data.py every
\* field whose value is None/absent or the literal "nan" is "", and every
\* other value is returned unchanged (apart from the trimming of the meta
\* tag's content); no field is None or "nan".
C6_CoercesExactlyPlaceholders ==
    (Returned /\ arg.fn = "instagram" /\ ret.kind = "record") =>
        /\ ret.value.url = Coerced(arg.url)
        /\ InstagramFetched =>
              /\ ret.value.description = Coerced(TagValue(arg.page.description))
              /\ ret.value.thumbnail = Coerced(TagValue(arg.page.image))
        /\ \A f \in DOMAIN ret.value : ~IsPlaceholder(ret.value[f])

\* The tag the claim assigns to a host.
TagOfHost(host) ==
    IF SearchSuffix(host, {"youtube.com", "youtu.be"}) THEN "youtube"
    ELSE IF SearchSuffix(host, {"tiktok.com"}) THEN "tiktok"
    ELSE IF SearchSuffix(host, {"instagram.com"}) THEN "instagram"
    ELSE "unknown"

\* C9: detect_platform returns the tag of the URL's host (youtube for hosts
\* ending in youtube.com or youtu.be, tiktok for tiktok.com, instagram for
\* instagram.com, unknown otherwise), and both copies return the same tag.
C9_ClassifyByHost ==
    /\ ret.main # "pending" => ret.main = TagOfHost(UrlHost(arg))
    /\ ret.meta # "pending" => ret.meta = TagOfHost(UrlHost(arg))
    /\ (ret.main # "pending" /\ ret.meta # "pending") => ret.main = ret.meta

(***************************************************************************)
(* Claims about repeated downloads                                         *)
(***************************************************************************)
\* a download function ran in this run and came back without an exception
\* (download complete, or skipped because the video file exists)
DownloadReturned == InMain /\ pc = "returned" /\ dl.fn # "none"

HasVideo == File(dl.video_path) \in fs
HasSidecar == File(dl.metadata_path) \in fs

\* C11: whenever a download operation returns normally, also in a run that
\* follows interrupted or failed runs on the same URL, the video file and the
\* JSON sidecar are both present; no video is left without its sidecar by a
\* run that reports completion or skip.
C11_ReturnedWithVideoAndSidecar == DownloadReturned => (HasVideo /\ HasSidecar)

(***************************************************************************)
(* Claims about the counters of the batch run                              *)
(***************************************************************************)
\* the loop is between two rows, or the run printed its summary
AtRowBoundary == InBatch /\ pc \in {"loop", "done"}

\* C12: every visited row increments exactly one of success_count and
\* skipped_error_count, so at every row boundary and in the final summary the
\* two add up to the number of rows visited, whatever step of the row fails
\* (the live write of the temp file included).
C12_CountersAddUpToRowsVisited ==
    AtRowBoundary => success_count + skipped_error_count = idx
====
